---- MODULE Spec2Model ----
(***************************************************************************)
(* A model of the gainer-ranking pipeline: PolygonClient                   *)
(* (src/src/polygon_client.py) and GainersEngine                           *)
(* (src/src/gainers_engine.py).                                            *)
(*                                                                         *)
(* Conventions.  A dict key that may be absent is an option: <<>> when     *)
(* absent, <<v>> when present.  A percentage that Python keeps as a float  *)
(* is the exact fraction [num, den]; a percentage rounded by round(x, 2)   *)
(* is an integer count of hundredths of a percent.  Bar timestamps are     *)
(* minutes relative to end_time (0 = end_time).                            *)
(***************************************************************************)
EXTENDS Integers, Sequences, FiniteSets, TLC

\* ------------------------------------------------------------------ bounds
MaxSnap == 4        \* longest snapshot list of plain entries
MaxEdge == 2        \* longest snapshot list of edge-case entries
MaxTopN == 2        \* largest top_n the engine is constructed with
Minutes == 2        \* lookback_minutes the engine is constructed with
MaxBars == 2        \* longest bar list the provider returns for one ticker
NumCallers == 2     \* concurrent callers of the name-resolution methods
MaxNames == 3       \* longest tickers list a caller asks names for
MaxBatch == 2       \* longest tickers list a caller asks bars for

\* ------------------------------------------------- program constants
\* The slice bounds of the source, scaled down so that the model's small
\* inputs reach them (source values: 100, 10, 50, 5).
SnapLimit == 3      \* snapshots[:100]
Buffer == 1         \* candidates[: self.top_n + 10]
ChunkSize == 2      \* range(0, len(uncached), 50)
LeadIn == 1         \* from_date = start_time - timedelta(minutes=5)

\* ------------------------------------------------------------ helpers
Get(opt, default) == IF opt = <<>> THEN default ELSE opt[1]

Min(a, b) == IF a <= b THEN a ELSE b

Abs(x) == IF x < 0 THEN -x ELSE x

Range(s) == {s[i] : i \in DOMAIN s}

Take(s, n) == SubSeq(s, 1, Min(n, Len(s)))

LastN(s, n) == SubSeq(s, Len(s) - n + 1, Len(s))

SeqsUpTo(S, n) == UNION {[1..k -> S] : k \in 0..n}

\* f with key k set to v (dict assignment d[k] = v)
Put(f, k, v) == [x \in DOMAIN f \cup {k} |-> IF x = k THEN v ELSE f[x]]

EmptyMap == [x \in {} |-> 0]

\* ----------------------------------------------------------- fractions
Frac(n, d) == [num |-> n, den |-> d]

\* Python's x / y: raises ZeroDivisionError when y = 0
ZeroDivisionError == Frac(0, 0)

Div(n, d) == IF d = 0 THEN ZeroDivisionError
             ELSE IF d < 0 THEN Frac(-n, -d) ELSE Frac(n, d)

Raised(q) == q.den = 0

\* p > q for fractions with positive denominators
FracGT(p, q) == p.num * q.den > q.num * p.den

\* round(x, 2) as hundredths: nearest integer to 100 * num / den, ties to even
Round2(q) ==
  LET n == 100 * q.num
      d == q.den
      fl == n \div d
      r == n - fl * d
  IN  IF 2 * r < d THEN fl
      ELSE IF 2 * r > d THEN fl + 1
      ELSE IF fl % 2 = 0 THEN fl ELSE fl + 1

\* ------------------------------------------------------- input domains
Tickers == {"A", "B"}

\* provider's display names
CompanyName == [t \in Tickers |-> IF t = "A" THEN "Acme Corp" ELSE "Bolt Inc"]

\* Snapshot entries the provider may return.  ticker "" stands for a missing
\* or empty "ticker"; minc is min.c, dayc is day.c, dayo is day.o, dayv is
\* day.v, prevc is prevDay.c, tcp is todaysChangePerc.
Entry(tk, mc, dc, pc_, tp) ==
  [ticker |-> tk, minc |-> mc, dayc |-> dc, dayo |-> <<>>, dayv |-> <<5>>,
   prevc |-> pc_, tcp |-> tp]

\* well-formed entries with a positive price: day gains 50% and 100%
PlainEntries ==
  { Entry("A", <<0>>, <<3>>, <<2>>, <<Frac(22, 3)>>),
    Entry("B", <<4>>, <<3>>, <<2>>, <<>>) }

\* entries with a missing ticker, a non-positive price or previous close,
\* and two more gains (33.33%, and 50% again)
EdgeEntries ==
  { Entry("", <<4>>, <<3>>, <<2>>, <<>>),
    Entry("A", <<-1>>, <<3>>, <<2>>, <<>>),
    Entry("B", <<0>>, <<>>, <<2>>, <<Frac(7, 1)>>),
    Entry("B", <<4>>, <<3>>, <<>>, <<>>),
    Entry("B", <<4>>, <<>>, <<3>>, <<>>),
    Entry("B", <<>>, <<6>>, <<4>>, <<>>),
    Entry("A", <<3>>, <<>>, <<0>>, <<>>),
    Entry("A", <<3>>, <<>>, <<-2>>, <<Frac(7, 1)>>) }

\* Snapshot lists: long lists of plain entries, short lists of the others
Snapshots == SeqsUpTo(PlainEntries, MaxSnap) \cup SeqsUpTo(EdgeEntries, MaxEdge)

\* A provider call fails with a network error or a non-2xx status (raised by
\* _request), or its payload is malformed (raised by the caller's parsing).
Failures == {"network", "status", "malformed"}

\* ------------------------------------------------ candidate selection
\* min_data.get("c") or day_data.get("c", 0)
CurrentPrice(snap) ==
  IF snap.minc # <<>> /\ snap.minc[1] # 0 THEN snap.minc[1] ELSE Get(snap.dayc, 0)

PrevClose(snap) == Get(snap.prevc, 0)

\* a guard that lets a previous close of 0 through
DayGain_ZeroPrev(current_price, prev_close) ==
  IF prev_close >= 0
    THEN Div((current_price - prev_close) * 100, prev_close)
    ELSE Frac(0, 1)

\* the daily gain in percent; ZeroDivisionError if the division raises
DayGain(current_price, prev_close) ==
  IF prev_close > 0
    THEN Div((current_price - prev_close) * 100, prev_close)
    ELSE Frac(0, 1)

\* a filter that tests the price against 0 with = instead of <=
Skipped_ZeroOnly(snap) == snap.ticker = "" \/ CurrentPrice(snap) = 0

\* the entry is skipped by the loop: no ticker, or no positive price
Skipped(snap) == snap.ticker = "" \/ CurrentPrice(snap) <= 0

\* the candidate built from entry i of the snapshot list
Candidate(snaps, i) ==
  LET snap == snaps[i]
      prev_close == PrevClose(snap)
  IN  [ticker |-> snap.ticker,
       current_price |-> CurrentPrice(snap),
       volume |-> Get(snap.dayv, 0),
       day_gain |-> DayGain(CurrentPrice(snap), prev_close),
       day_open |-> Get(snap.dayo, prev_close),
       src |-> i]

\* the loop over snapshots[:limit]: the candidates in snapshot order
RECURSIVE CandidatesFrom(_, _, _)
CandidatesFrom(snaps, i, limit) ==
  IF i > Min(limit, Len(snaps)) THEN <<>>
  ELSE IF Skipped(snaps[i]) THEN CandidatesFrom(snaps, i + 1, limit)
  ELSE <<Candidate(snaps, i)>> \o CandidatesFrom(snaps, i + 1, limit)

\* a descending sort that puts x before the elements of equal key
RECURSIVE InsertDesc_Unstable(_, _)
InsertDesc_Unstable(sorted, x) ==
  IF sorted = <<>> THEN <<x>>
  ELSE IF ~FracGT(Head(sorted).key, x.key) THEN <<x>> \o sorted
  ELSE <<Head(sorted)>> \o InsertDesc_Unstable(Tail(sorted), x)

\* list.sort(key=..., reverse=True) on records with a "key" field: stable and
\* descending, so x goes after every element whose key is >= x's key.
RECURSIVE InsertDesc(_, _)
InsertDesc(sorted, x) ==
  IF sorted = <<>> THEN <<x>>
  ELSE IF FracGT(x.key, Head(sorted).key) THEN <<x>> \o sorted
  ELSE <<Head(sorted)>> \o InsertDesc(Tail(sorted), x)

RECURSIVE SortDesc(_)
SortDesc(s) ==
  IF s = <<>> THEN <<>>
  ELSE InsertDesc(SortDesc(SubSeq(s, 1, Len(s) - 1)), s[Len(s)])

Vals(keyed) == [i \in DOMAIN keyed |-> keyed[i].val]

\* candidates.sort(key=lambda c: c["day_gain"], reverse=True)
SortByDayGain(cands) ==
  Vals(SortDesc([i \in DOMAIN cands |-> [key |-> cands[i].day_gain, val |-> cands[i]]]))

\* the sorted candidates without the cut to top_n + 10
KeptCandidates_NoCut(snaps, topn) ==
  SortByDayGain(CandidatesFrom(snaps, 1, SnapLimit))

\* candidates.sort(...); candidates = candidates[: self.top_n + 10]
KeptCandidates(snaps, topn) ==
  Take(SortByDayGain(CandidatesFrom(snaps, 1, SnapLimit)), topn + Buffer)

\* ------------------------------------------------------------- bars
Bar(o, c, t) == [open |-> o, close |-> c, t |-> t]

\* the window, in minutes relative to end_time = 0
StartTime(minutes) == 0 - (minutes - 1)

FromDate(minutes) == StartTime(minutes) - LeadIn

\* bars the provider may hold for a ticker, from two minutes before end_time
\* to end_time; one of them opens at 0
BarVals == {Bar(1, 2, -2), Bar(2, 3, -1), Bar(0, 1, -1), Bar(4, 5, 0)}

Ascending(bars) == \A i, j \in DOMAIN bars : i < j => bars[i].t < bars[j].t

\* "sort": "asc"
BarSeqs == {b \in SeqsUpTo(BarVals, MaxBars) : Ascending(b)}

\* the provider's answer to one aggregate-bar request
BarResponses ==
  {[status |-> f, bars |-> <<>>] : f \in Failures} \cup
  {[status |-> "ok", bars |-> b] : b \in BarSeqs}

\* a window that starts at from_date, the start of the lead-in
Window_FromLeadIn(bars, minutes) ==
  LET InWindow(b) == FromDate(minutes) <= b.t /\ b.t <= 0
      window == SelectSeq(bars, InWindow)
  IN  IF Len(window) > minutes THEN LastN(window, minutes) ELSE window

\* window = [b for b in bars if start_time <= b.timestamp <= end_time]
\* window[-minutes:] if len(window) > minutes else window
Window(bars, minutes) ==
  LET InWindow(b) == StartTime(minutes) <= b.t /\ b.t <= 0
      window == SelectSeq(bars, InWindow)
  IN  IF Len(window) > minutes THEN LastN(window, minutes) ELSE window

\* fetch_single without its try/except: a failed request leaves the task
FetchSingle_NoCatch(resp, minutes) ==
  IF resp.status = "ok"
    THEN [raised |-> FALSE, bars |-> Window(resp.bars, minutes)]
    ELSE [raised |-> TRUE, bars |-> <<>>]

\* fetch_single: what the task returns for the provider's answer.  raised is
\* TRUE when an exception leaves the task.
FetchSingle(resp, minutes) ==
  IF resp.status = "ok"
    THEN [raised |-> FALSE, bars |-> Window(resp.bars, minutes)]
    ELSE [raised |-> FALSE, bars |-> <<>>]

\* dict(results): for a ticker listed twice the later task's result stays
RECURSIVE DictOf(_, _, _)
DictOf(tickers, results, n) ==
  IF n = 0 THEN EmptyMap
  ELSE Put(DictOf(tickers, results, n - 1), tickers[n], results[n])

\* the gain from the first bar's close instead of its open
Gain10_FirstClose(bars) ==
  IF Len(bars) >= 2
    THEN IF bars[1].close > 0
           THEN Div((bars[Len(bars)].close - bars[1].close) * 100, bars[1].close)
           ELSE Frac(0, 1)
    ELSE Frac(0, 1)

\* a gain computed from one bar on
Gain10_OneBar(bars) ==
  IF Len(bars) >= 1
    THEN IF bars[1].open > 0
           THEN Div((bars[Len(bars)].close - bars[1].open) * 100, bars[1].open)
           ELSE Frac(0, 1)
    ELSE Frac(0, 1)

\* the 10-minute gain in percent of a bar list
Gain10(bars) ==
  IF Len(bars) >= 2
    THEN IF bars[1].open > 0
           THEN Div((bars[Len(bars)].close - bars[1].open) * 100, bars[1].open)
           ELSE Frac(0, 1)
    ELSE Frac(0, 1)

\* bars_map.get(ticker, [])
BarsOf(bmap, ticker) == IF ticker \in DOMAIN bmap THEN bmap[ticker] ELSE <<>>

\* the GainerReport of candidate number i (cand and src record where the
\* report comes from; timestamp is left out)
Report(cands, i, bmap, nmap) ==
  LET c == cands[i]
  IN  [ticker |-> c.ticker,
       name |-> IF c.ticker \in DOMAIN nmap THEN nmap[c.ticker] ELSE c.ticker,
       current_price |-> c.current_price,
       volume |-> c.volume,
       gain_10min_percent |-> Round2(Gain10(BarsOf(bmap, c.ticker))),
       gain_day_percent |-> Round2(c.day_gain),
       cand |-> i,
       src |-> c.src]

\* reports.sort(key=lambda r: r.gain_10min_percent, reverse=True)
SortByGain10(reps) ==
  Vals(SortDesc([i \in DOMAIN reps |->
                   [key |-> Frac(reps[i].gain_10min_percent, 1), val |-> reps[i]]]))

\* the reports list before the final sort
Reports(cands, bmap, nmap) == [i \in DOMAIN cands |-> Report(cands, i, bmap, nmap)]

\* the cut without the final sort
TopReports_NoSort(cands, bmap, nmap, topn) == Take(Reports(cands, bmap, nmap), topn)

\* return reports[: self.top_n]
TopReports(cands, bmap, nmap, topn) == Take(SortByGain10(Reports(cands, bmap, nmap)), topn)

\* ----------------------------------------------------- name resolution
\* one item of "results" in a /v3/reference/tickers answer
Item(tk, nm) == [ticker |-> tk, name |-> nm]

\* what the provider may say about one requested ticker: nothing, an item
\* with its name, an item without a name
ItemsFor(t) == {<<>>, <<Item(t, <<CompanyName[t]>>)>>, <<Item(t, <<>>)>>}

RECURSIVE ItemLists(_)
ItemLists(chunk) ==
  IF chunk = <<>> THEN {<<>>}
  ELSE {a \o b : a \in ItemsFor(Head(chunk)), b \in ItemLists(Tail(chunk))}

\* answers to a batch request: a failure, or the items parsed so far and,
\* with "malformed", an exception after them
ChunkResponses(chunk) ==
  {[status |-> f, items |-> <<>>] : f \in Failures} \cup
  {[status |-> st, items |-> il] : st \in {"ok", "malformed"}, il \in ItemLists(chunk)}

\* answers to a batch request that treat the whole chunk alike
UniformChunkResponses(chunk) ==
  {[status |-> f, items |-> <<>>] : f \in Failures} \cup
  {[status |-> "ok", items |-> il] :
     il \in {<<>>, [i \in DOMAIN chunk |-> Item(chunk[i], <<CompanyName[chunk[i]]>>)]}}

\* answers to a single-ticker request: a failure, or a result with or
\* without "name"
DetailResponses(t) ==
  {[status |-> f, name |-> <<>>] : f \in Failures} \cup
  {[status |-> "ok", name |-> n] : n \in {<<>>, <<CompanyName[t]>>}}

\* a batch call that looks nothing up in the cache
BatchBegin_AllUncached(tickers, cache) ==
  [result |-> EmptyMap, uncached |-> tickers]

\* get_ticker_details_batch up to the first request: cached results and the
\* uncached tickers
BatchBegin(tickers, cache) ==
  LET Uncached(t) == t \notin DOMAIN cache
  IN  [result |-> [t \in Range(tickers) \cap DOMAIN cache |-> cache[t]],
       uncached |-> SelectSeq(tickers, Uncached)]

\* uncached[i : i + 50]
Chunk(uncached, i) == SubSeq(uncached, i + 1, Min(i + ChunkSize, Len(uncached)))

\* a loop that caches the ticker symbol instead of the name
RECURSIVE BatchApply_CacheTicker(_, _, _)
BatchApply_CacheTicker(items, cache, result) ==
  IF items = <<>> THEN [cache |-> cache, result |-> result]
  ELSE LET item == Head(items)
           name == Get(item.name, item.ticker)
       IN  IF item.ticker # ""
             THEN BatchApply_CacheTicker(Tail(items), Put(cache, item.ticker, item.ticker),
                                         Put(result, item.ticker, name))
             ELSE BatchApply_CacheTicker(Tail(items), cache, result)

\* the loop over data.get("results", []): cache and result after the items
RECURSIVE BatchApply(_, _, _)
BatchApply(items, cache, result) ==
  IF items = <<>> THEN [cache |-> cache, result |-> result]
  ELSE LET item == Head(items)
           name == Get(item.name, item.ticker)
       IN  IF item.ticker # ""
             THEN BatchApply(Tail(items), Put(cache, item.ticker, name),
                             Put(result, item.ticker, name))
             ELSE BatchApply(Tail(items), cache, result)

\* no fill-in of the tickers that were not found
BatchFill_None(uncached, result) == result

\* for t in uncached: if t not in result: result[t] = t
BatchFill(uncached, result) ==
  [t \in DOMAIN result \cup Range(uncached) |->
     IF t \in DOMAIN result THEN result[t] ELSE t]

\* get_ticker_details after its request: the name returned and the cache
DetailsApply(resp, ticker, cache) ==
  IF resp.status = "ok"
    THEN [name |-> Get(resp.name, ticker), cache |-> Put(cache, ticker, Get(resp.name, ticker))]
    ELSE [name |-> ticker, cache |-> cache]

\* ------------------------------------------------------------- state
VARIABLES
  pc,               \* where the engine's run is: idle, gainers, tickers,
                    \* gather, s_gainers, s_name, done, error
  mode,             \* the method run: none, full (get_top_gainers) or
                    \* simple (get_top_gainers_simple)
  top_n,            \* GainersEngine.top_n
  lookback_minutes, \* GainersEngine.lookback_minutes
  primary,          \* what get_gainers returned: <<>> before, then <<list>>
  snapshots,        \* the snapshot list of the run
  candidates,       \* the kept candidates
  tasks,            \* fetch_single tasks, one per candidate: pending or done
  results,          \* what each finished fetch_single task returned
  bars_src,         \* the provider's answer per ticker in this batch
  bars_map,         \* fetch_recent_bars_batch's return value
  name_map,         \* get_ticker_details_batch's return value in the run
  ranked,           \* get_top_gainers: reports after the final sort
  reports,          \* the run's reports (its return value when pc = done)
  si,               \* get_top_gainers_simple: index of the entry in the loop
  calls,            \* provider requests issued by the run, in order
  failed,           \* what failed during the run: the requests by endpoint,
                    \* and "division" for a ZeroDivisionError
  ticker_names,     \* PolygonClient._ticker_names
  ticker_cache,     \* GainersEngine._ticker_cache
  ncall,            \* name-resolution calls in progress, per caller
  rerun             \* a second run on the same data: which run this is, the
                    \* provider's data, and the first run's reports

vars == <<pc, mode, top_n, lookback_minutes, primary, snapshots, candidates,
          tasks, results, bars_src, bars_map, name_map, ranked, reports, si,
          calls, failed, ticker_names, ticker_cache, ncall, rerun>>

config == <<top_n, lookback_minutes>>

\* what no step of a run changes
fixed == <<config, rerun>>

\* the state of get_top_gainers' fan-out and fan-in
fanVars == <<candidates, tasks, results, bars_src, bars_map, name_map, ranked>>

runVars == <<pc, mode, primary, snapshots, fanVars, reports, si, calls, failed>>

\* caller 0 is the engine's run; the others call the client directly
Callers == 0..NumCallers

\* A call record: op is the method, st is idle, wait (a request is out), done
\* or raised; got records the tickers the call found a name for (in the cache
\* or in an answer).
\* A bars call (fetch_recent_bars_batch) also has its minutes argument, the
\* clock it read (now, in seconds), the tasks without an answer (pending),
\* the provider's answers (src) and what the tasks returned (out).
IdleCall == [op |-> "none", st |-> "idle", tickers |-> <<>>, uncached |-> <<>>,
             i |-> 0, result |-> EmptyMap, ticker |-> "", name |-> "", got |-> {},
             minutes |-> 0, now |-> 0, pending |-> {}, src |-> <<>>, out |-> <<>>]

\* no second run
NoRerun == [run |-> 0, gainers |-> <<>>, tickers |-> <<>>, names |-> EmptyMap,
            nstatus |-> "ok", bars |-> EmptyMap, warm |-> FALSE, shift |-> 0,
            first |-> <<>>]

\* a new client and a new engine
InitRun ==
  /\ pc = "idle"
  /\ mode = "none"
  /\ top_n \in 1..MaxTopN
  /\ lookback_minutes = Minutes
  /\ primary = <<>>
  /\ snapshots = <<>>
  /\ candidates = <<>>
  /\ tasks = <<>>
  /\ results = <<>>
  /\ bars_src = EmptyMap
  /\ bars_map = EmptyMap
  /\ name_map = EmptyMap
  /\ ranked = <<>>
  /\ reports = <<>>
  /\ si = 0
  /\ calls = <<>>
  /\ failed = {}
  /\ ticker_names = EmptyMap
  /\ ticker_cache = EmptyMap
  /\ ncall = [c \in Callers |-> IdleCall]

Init == InitRun /\ rerun = NoRerun

\* answers to a snapshot request (_request raises, or the list of "tickers")
SnapshotResponses ==
  {[status |-> f, tickers |-> <<>>] : f \in Failures \ {"malformed"}} \cup
  {[status |-> "ok", tickers |-> s] : s \in Snapshots}

\* ------------------------------------- get_ticker_details_batch (caller c)
\* the call up to its first await: the call record
BatchCall(tickers, cache) ==
  LET b == BatchBegin(tickers, cache)
  IN  [IdleCall EXCEPT !.op = "batch", !.tickers = tickers,
         !.uncached = b.uncached, !.result = b.result,
         !.got = DOMAIN b.result,
         !.st = IF b.uncached = <<>> THEN "done" ELSE "wait"]

\* an except clause that catches the request's errors only, not the parsing's
BatchCatches_RequestOnly(status) == status # "malformed"

\* "except Exception: pass" around the request and the loop over its items
BatchCatches(status) == TRUE

\* tickers with a name among the items
NamedIn(items) ==
  {items[j].ticker : j \in {k \in DOMAIN items : items[k].ticker # "" /\ items[k].name # <<>>}}

\* the call after the answer to the chunk at index i
BatchAfter(call, resp, cache) ==
  LET a == BatchApply(resp.items, cache, call.result)
      next == call.i + ChunkSize
      got == call.got \cup NamedIn(resp.items)
  IN  IF resp.status # "ok" /\ ~BatchCatches(resp.status)
        THEN [cache |-> a.cache,
              call |-> [call EXCEPT !.result = a.result, !.got = got, !.st = "raised"]]
      ELSE IF next < Len(call.uncached)
        THEN [cache |-> a.cache,
              call |-> [call EXCEPT !.result = a.result, !.got = got, !.i = next]]
        ELSE [cache |-> a.cache,
              call |-> [call EXCEPT !.result = BatchFill(call.uncached, a.result),
                                    !.got = got, !.i = next, !.st = "done"]]

\* the chunk caller c's batch call has a request out for
ChunkOf(c) == Chunk(ncall[c].uncached, ncall[c].i)

\* the answer resp to the chunk request of caller c's batch call arrives
BatchStep(c, resp) ==
  /\ ncall[c].op = "batch" /\ ncall[c].st = "wait"
  /\ LET a == BatchAfter(ncall[c], resp, ticker_names)
     IN  /\ ticker_names' = a.cache
         /\ ncall' = [ncall EXCEPT ![c] = a.call]

\* ------------------------------------------------------ get_top_gainers
Tickers_(cands) == [i \in DOMAIN cands |-> cands[i].ticker]

\* no fallback
NeedsFallback_Never(snaps) == FALSE

\* "if not snapshots": the fallback snapshot is asked for
NeedsFallback(snaps) == snaps = <<>>

StartFull ==
  /\ pc = "idle"
  /\ pc' = "gainers"
  /\ mode' = "full"
  /\ calls' = Append(calls, "gainers")
  /\ UNCHANGED <<fixed, primary, snapshots, fanVars, reports, si, failed,
                 ticker_names, ticker_cache, ncall>>

\* a fan-out that starts the bar tasks only: the name batch is not started
\* with them
FanOut_BarsFirst(snaps, log) ==
  LET kept == KeptCandidates(snaps, top_n)
  IN  /\ pc' = "gather"
      /\ candidates' = kept
      /\ tasks' = [i \in DOMAIN kept |-> "pending"]
      /\ results' = [i \in DOMAIN kept |-> <<>>]
      /\ ncall' = [ncall EXCEPT ![0] = [IdleCall EXCEPT !.op = "batch",
                                          !.tickers = Tickers_(kept)]]
      /\ calls' = log \o [i \in DOMAIN kept |-> "aggs"]
      /\ UNCHANGED failed

\* From the snapshot list to the await of asyncio.gather.  The gathered
\* coroutines start in order: fetch_recent_bars_batch creates its tasks, the
\* name batch runs up to its first request, then each fetch_single task runs
\* up to its request.
FanOut(snaps, log) ==
  IF \E i \in 1..Len(CandidatesFrom(snaps, 1, SnapLimit)) :
       Raised(CandidatesFrom(snaps, 1, SnapLimit)[i].day_gain)
    THEN /\ pc' = "error"
         /\ failed' = failed \cup {"division"}
         /\ calls' = log
         /\ UNCHANGED <<candidates, tasks, results, ncall>>
    ELSE LET kept == KeptCandidates(snaps, top_n)
             call == BatchCall(Tickers_(kept), ticker_names)
         IN  /\ pc' = "gather"
             /\ candidates' = kept
             /\ tasks' = [i \in DOMAIN kept |-> "pending"]
             /\ results' = [i \in DOMAIN kept |-> <<>>]
             /\ ncall' = [ncall EXCEPT ![0] = call]
             /\ calls' = log \o (IF call.st = "wait" THEN <<"names">> ELSE <<>>)
                             \o [i \in DOMAIN kept |-> "aggs"]
             /\ UNCHANGED failed

\* get_top_gainers from the answer to get_gainers to its next await
GainersGot(resp) ==
  /\ IF resp.status # "ok"
       THEN /\ pc' = "error"
            /\ failed' = failed \cup {"gainers"}
            /\ UNCHANGED <<primary, snapshots, candidates, tasks, results, ncall, calls>>
       ELSE /\ primary' = <<resp.tickers>>
            /\ snapshots' = resp.tickers
            /\ IF NeedsFallback(resp.tickers)
                 THEN /\ pc' = "tickers"
                      /\ calls' = Append(calls, "tickers")
                      /\ UNCHANGED <<candidates, tasks, results, ncall, failed>>
                 ELSE FanOut(resp.tickers, calls)
  /\ UNCHANGED <<mode, fixed, bars_src, bars_map, name_map, ranked, reports, si,
                 ticker_names, ticker_cache>>

GainersResp ==
  /\ pc = "gainers"
  /\ \E resp \in SnapshotResponses : GainersGot(resp)

\* get_top_gainers from the answer to get_all_tickers_snapshot to its next
\* await
TickersGot(resp) ==
  /\ IF resp.status # "ok"
       THEN /\ pc' = "error"
            /\ failed' = failed \cup {"tickers"}
            /\ UNCHANGED <<snapshots, candidates, tasks, results, ncall, calls>>
       ELSE /\ snapshots' = resp.tickers
            /\ FanOut(resp.tickers, calls)
  /\ UNCHANGED <<mode, fixed, primary, bars_src, bars_map, name_map, ranked,
                 reports, si, ticker_names, ticker_cache>>

TickersResp ==
  /\ pc = "tickers"
  /\ \E resp \in SnapshotResponses : TickersGot(resp)

\* the answer to the aggregate-bar request of task k arrives
BarResp(k) ==
  /\ pc = "gather"
  /\ k \in DOMAIN tasks /\ tasks[k] = "pending"
  /\ \E resp \in BarResponses :
       LET ticker == candidates[k].ticker
           r == FetchSingle(resp, lookback_minutes)
       IN  /\ ticker \in DOMAIN bars_src => resp = bars_src[ticker]
           /\ bars_src' = Put(bars_src, ticker, resp)
           /\ tasks' = [tasks EXCEPT ![k] = "done"]
           /\ failed' = IF resp.status = "ok" THEN failed ELSE failed \cup {"aggs"}
           /\ IF r.raised
                THEN pc' = "error" /\ UNCHANGED results
                ELSE pc' = pc /\ results' = [results EXCEPT ![k] = r.bars]
  /\ UNCHANGED <<mode, fixed, primary, snapshots, candidates, bars_map, name_map,
                 ranked, reports, si, calls, ticker_names, ticker_cache, ncall>>

\* the answer to a chunk request of the run's name batch arrives
NamesResp ==
  /\ pc = "gather"
  /\ \E resp \in UniformChunkResponses(ChunkOf(0)) :
       /\ BatchStep(0, resp)
       /\ failed' = IF resp.status = "ok" THEN failed ELSE failed \cup {"names"}
  /\ pc' = IF ncall'[0].st = "raised" THEN "error" ELSE pc
  /\ calls' = IF ncall'[0].st = "wait" THEN Append(calls, "names") ELSE calls
  /\ UNCHANGED <<mode, fixed, primary, snapshots, fanVars, reports, si, ticker_cache>>

\* both awaited coroutines have returned: the rest of get_top_gainers
GatherDone ==
  /\ pc = "gather"
  /\ \A k \in DOMAIN tasks : tasks[k] = "done"
  /\ ncall[0].st = "done"
  /\ LET bmap == DictOf(Tickers_(candidates), results, Len(candidates))
         nmap == ncall[0].result
     IN  /\ bars_map' = bmap
         /\ name_map' = nmap
         /\ ranked' = SortByGain10(Reports(candidates, bmap, nmap))
         /\ reports' = TopReports(candidates, bmap, nmap, top_n)
  /\ pc' = "done"
  /\ ncall' = [ncall EXCEPT ![0] = IdleCall]
  /\ UNCHANGED <<mode, fixed, primary, snapshots, candidates, tasks, results,
                 bars_src, si, calls, failed, ticker_names, ticker_cache>>

\* ----------------------------------------------- get_top_gainers_simple
\* a report that takes the local day gain even when the entry has
\* todaysChangePerc
SimpleReport_DayGainOnly(snaps, i, name) ==
  LET snap == snaps[i]
      day_gain == DayGain(CurrentPrice(snap), PrevClose(snap))
  IN  [ticker |-> snap.ticker,
       name |-> name,
       current_price |-> CurrentPrice(snap),
       volume |-> Get(snap.dayv, 0),
       gain_10min_percent |-> Round2(day_gain),
       gain_day_percent |-> Round2(day_gain),
       cand |-> i,
       src |-> i]

\* the report of entry i of the snapshot list, with its resolved name
SimpleReport(snaps, i, name) ==
  LET snap == snaps[i]
      day_gain == DayGain(CurrentPrice(snap), PrevClose(snap))
  IN  [ticker |-> snap.ticker,
       name |-> name,
       current_price |-> CurrentPrice(snap),
       volume |-> Get(snap.dayv, 0),
       gain_10min_percent |-> Round2(Get(snap.tcp, day_gain)),
       gain_day_percent |-> Round2(day_gain),
       cand |-> i,
       src |-> i]

\* The loop over snapshots[: self.top_n] from entry i on, up to the next
\* request for a name (waiting), an exception (raised) or the end of the list.
\* ecache is GainersEngine._ticker_cache, ccache is PolygonClient._ticker_names.
RECURSIVE SimpleLoop(_, _, _, _, _, _)
SimpleLoop(snaps, i, topn, reps, ecache, ccache) ==
  IF i > Min(topn, Len(snaps))
    THEN [i |-> i, reports |-> reps, ecache |-> ecache, waiting |-> FALSE, raised |-> FALSE]
  ELSE IF Skipped(snaps[i])
    THEN SimpleLoop(snaps, i + 1, topn, reps, ecache, ccache)
  ELSE IF Raised(DayGain(CurrentPrice(snaps[i]), PrevClose(snaps[i])))
    THEN [i |-> i, reports |-> reps, ecache |-> ecache, waiting |-> FALSE, raised |-> TRUE]
  ELSE IF snaps[i].ticker \in DOMAIN ecache
    THEN SimpleLoop(snaps, i + 1, topn,
                    Append(reps, SimpleReport(snaps, i, ecache[snaps[i].ticker])),
                    ecache, ccache)
  ELSE IF snaps[i].ticker \in DOMAIN ccache
    THEN SimpleLoop(snaps, i + 1, topn,
                    Append(reps, SimpleReport(snaps, i, ccache[snaps[i].ticker])),
                    Put(ecache, snaps[i].ticker, ccache[snaps[i].ticker]), ccache)
  ELSE [i |-> i, reports |-> reps, ecache |-> ecache, waiting |-> TRUE, raised |-> FALSE]

\* the run goes on to where the loop stops
SimpleGoOn(loop, bad) ==
  /\ si' = loop.i
  /\ reports' = loop.reports
  /\ ticker_cache' = loop.ecache
  /\ pc' = IF loop.raised THEN "error" ELSE IF loop.waiting THEN "s_name" ELSE "done"
  /\ calls' = IF loop.waiting THEN Append(calls, "details") ELSE calls
  /\ failed' = IF loop.raised THEN bad \cup {"division"} ELSE bad

StartSimple ==
  /\ pc = "idle"
  /\ pc' = "s_gainers"
  /\ mode' = "simple"
  /\ calls' = Append(calls, "gainers")
  /\ UNCHANGED <<fixed, primary, snapshots, fanVars, reports, si, failed,
                 ticker_names, ticker_cache, ncall>>

SimpleGainersResp ==
  /\ pc = "s_gainers"
  /\ \E resp \in SnapshotResponses :
       IF resp.status # "ok"
         THEN /\ pc' = "error"
              /\ failed' = failed \cup {"gainers"}
              /\ UNCHANGED <<primary, snapshots, reports, si, calls, ticker_cache>>
         ELSE /\ primary' = <<resp.tickers>>
              /\ snapshots' = resp.tickers
              /\ SimpleGoOn(SimpleLoop(resp.tickers, 1, top_n, <<>>, ticker_cache,
                                       ticker_names), failed)
  /\ UNCHANGED <<mode, fixed, fanVars, ticker_names, ncall>>

\* the answer to get_ticker_details' request for entry si arrives
SimpleNameResp ==
  /\ pc = "s_name"
  /\ \E resp \in DetailResponses(snapshots[si].ticker) :
       LET ticker == snapshots[si].ticker
           a == DetailsApply(resp, ticker, ticker_names)
       IN  /\ ticker_names' = a.cache
           /\ SimpleGoOn(SimpleLoop(snapshots, si + 1, top_n,
                                    Append(reports, SimpleReport(snapshots, si, a.name)),
                                    Put(ticker_cache, ticker, a.name), a.cache),
                         IF resp.status = "ok" THEN failed ELSE failed \cup {"details"})
  /\ UNCHANGED <<mode, fixed, primary, snapshots, fanVars, ncall>>

Next ==
  \/ StartFull
  \/ GainersResp
  \/ TickersResp
  \/ \E k \in 1..(MaxTopN + Buffer) : BarResp(k)
  \/ NamesResp
  \/ GatherDone
  \/ StartSimple
  \/ SimpleGainersResp
  \/ SimpleNameResp

Spec == Init /\ [][Next]_vars

\* --------------------------------- name resolution by concurrent callers
\* tickers lists a caller may ask names for; a list longer than one chunk
\* starts with two different tickers
NameLists ==
  {l \in SeqsUpTo(Tickers, MaxNames) \ {<<>>} : Len(l) > ChunkSize => l[1] # l[2]}

BatchStart(c) ==
  /\ ncall[c].st = "idle"
  /\ \E tickers \in NameLists :
       ncall' = [ncall EXCEPT ![c] = BatchCall(tickers, ticker_names)]
  /\ UNCHANGED <<runVars, fixed, ticker_names, ticker_cache>>

BatchChunkResp(c) ==
  /\ \E resp \in ChunkResponses(ChunkOf(c)) : BatchStep(c, resp)
  /\ UNCHANGED <<runVars, fixed, ticker_cache>>

\* get_ticker_details up to its request
DetailsStart(c) ==
  /\ ncall[c].st = "idle"
  /\ \E t \in Tickers :
       ncall' = [ncall EXCEPT ![c] =
         IF t \in DOMAIN ticker_names
           THEN [IdleCall EXCEPT !.op = "details", !.ticker = t, !.st = "done",
                                 !.name = ticker_names[t]]
           ELSE [IdleCall EXCEPT !.op = "details", !.ticker = t, !.st = "wait"]]
  /\ UNCHANGED <<runVars, fixed, ticker_names, ticker_cache>>

\* get_ticker_details after its request
DetailsResp(c) ==
  /\ ncall[c].op = "details" /\ ncall[c].st = "wait"
  /\ \E resp \in DetailResponses(ncall[c].ticker) :
       LET a == DetailsApply(resp, ncall[c].ticker, ticker_names)
       IN  /\ ticker_names' = a.cache
           /\ ncall' = [ncall EXCEPT ![c].st = "done", ![c].name = a.name]
  /\ UNCHANGED <<runVars, fixed, ticker_cache>>

\* GainersEngine._get_ticker_name up to the request of get_ticker_details
EngineNameStart(c) ==
  /\ ncall[c].st = "idle"
  /\ \E t \in Tickers :
       IF t \in DOMAIN ticker_cache
         THEN /\ ncall' = [ncall EXCEPT ![c] =
                   [IdleCall EXCEPT !.op = "engine_name", !.ticker = t, !.st = "done",
                                    !.name = ticker_cache[t]]]
              /\ UNCHANGED ticker_cache
       ELSE IF t \in DOMAIN ticker_names
         THEN /\ ncall' = [ncall EXCEPT ![c] =
                   [IdleCall EXCEPT !.op = "engine_name", !.ticker = t, !.st = "done",
                                    !.name = ticker_names[t]]]
              /\ ticker_cache' = Put(ticker_cache, t, ticker_names[t])
         ELSE /\ ncall' = [ncall EXCEPT ![c] =
                   [IdleCall EXCEPT !.op = "engine_name", !.ticker = t, !.st = "wait"]]
              /\ UNCHANGED ticker_cache
  /\ UNCHANGED <<runVars, fixed, ticker_names>>

\* GainersEngine._get_ticker_name after the request of get_ticker_details
EngineNameResp(c) ==
  /\ ncall[c].op = "engine_name" /\ ncall[c].st = "wait"
  /\ \E resp \in DetailResponses(ncall[c].ticker) :
       LET a == DetailsApply(resp, ncall[c].ticker, ticker_names)
       IN  /\ ticker_names' = a.cache
           /\ ticker_cache' = Put(ticker_cache, ncall[c].ticker, a.name)
           /\ ncall' = [ncall EXCEPT ![c].st = "done", ![c].name = a.name]
  /\ UNCHANGED <<runVars, fixed>>

\* the caller takes the call's return value
Return(c) ==
  /\ ncall[c].st \in {"done", "raised"}
  /\ ncall' = [ncall EXCEPT ![c] = IdleCall]
  /\ UNCHANGED <<runVars, fixed, ticker_names, ticker_cache>>

NextNames ==
  \E c \in 1..NumCallers :
    \/ BatchStart(c)
    \/ BatchChunkResp(c)
    \/ DetailsStart(c)
    \/ DetailsResp(c)
    \/ EngineNameStart(c)
    \/ EngineNameResp(c)
    \/ Return(c)

\* one client and one engine, no run of the engine
InitNames == Init /\ top_n = 1

SpecNames == InitNames /\ [][NextNames]_vars

\* ------------------------------ fetch_recent_bars_batch by a direct caller
\* Clock readings in seconds, and the provider's bars with their timestamps
\* in minutes on the same clock.
Nows == {185, 240}

\* (datetime.now() - timedelta(minutes=1)).replace(second=0, microsecond=0),
\* in minutes
EndTime(now) == (now - 60) \div 60

ClockBars == {Bar(2, 3, t) : t \in 0..4}

\* answers to an aggregate-bar request: a failure, or bars in ascending order
\* from anywhere in the days asked for
ClockBarResponses ==
  {[status |-> f, bars |-> <<>>] : f \in Failures} \cup
  {[status |-> "ok", bars |-> b] :
     b \in {x \in SeqsUpTo(ClockBars, MaxBars) : Ascending(x)}}

\* the answer with its timestamps taken relative to end_time
Since(resp, end_time) ==
  [resp EXCEPT !.bars = [i \in DOMAIN resp.bars |->
                           [resp.bars[i] EXCEPT !.t = @ - end_time]]]

\* tickers lists a caller may ask bars for
TickerLists == SeqsUpTo(Tickers, MaxBatch)

\* the call up to the await of asyncio.gather: one fetch_single per ticker
BarsStart(c) ==
  /\ ncall[c].st = "idle"
  /\ \E tickers \in TickerLists, minutes \in 1..Minutes, now \in Nows :
       ncall' = [ncall EXCEPT ![c] =
         [IdleCall EXCEPT !.op = "bars", !.tickers = tickers, !.minutes = minutes,
                          !.now = now, !.pending = DOMAIN tickers,
                          !.src = [i \in DOMAIN tickers |-> <<>>],
                          !.out = [i \in DOMAIN tickers |-> <<>>],
                          !.st = IF tickers = <<>> THEN "done" ELSE "wait"]]
  /\ UNCHANGED <<runVars, fixed, ticker_names, ticker_cache>>

\* the answer to the request of task k arrives; with the last answer the
\* gather returns and the call builds dict(results)
BarsResp(c, k) ==
  /\ ncall[c].op = "bars" /\ ncall[c].st = "wait"
  /\ k \in ncall[c].pending
  /\ \E resp \in ClockBarResponses :
       LET call == ncall[c]
           r == FetchSingle(Since(resp, EndTime(call.now)), call.minutes)
           out == [call.out EXCEPT ![k] = r.bars]
           pending == call.pending \ {k}
       IN  ncall' = [ncall EXCEPT ![c] =
             IF r.raised
               THEN [call EXCEPT !.st = "raised"]
               ELSE [call EXCEPT
                       !.src = [@ EXCEPT ![k] = <<Since(resp, EndTime(call.now))>>],
                       !.out = out,
                       !.pending = pending,
                       !.result = IF pending = {}
                                    THEN DictOf(call.tickers, out, Len(call.tickers))
                                    ELSE @,
                       !.st = IF pending = {} THEN "done" ELSE "wait"]]
  /\ UNCHANGED <<runVars, fixed, ticker_names, ticker_cache>>

NextBars ==
  \E c \in 1..1 :
    \/ BarsStart(c)
    \/ \E k \in 1..MaxBatch : BarsResp(c, k)
    \/ Return(c)

SpecBars == InitNames /\ [][NextBars]_vars

\* ------------------------------------ get_top_gainers twice on the same data
\* The provider's data are fixed for both runs: the gainers list, the
\* all-tickers list, per ticker the item of the reference endpoint (none, with
\* a name, without a name) and whether that endpoint answers or fails, and per
\* ticker the answer to the aggregate-bar request (fixed by the first run's
\* request).  The second run is on a new client or on the same client, and
\* reads the clock in the same minute as the first or a minute later
\* (rerun.shift).
FixedLists == SeqsUpTo(PlainEntries, SnapLimit)

FixedNames == [Tickers -> {"none", "named", "unnamed"}]

FixedData ==
  {[NoRerun EXCEPT !.run = 1, !.gainers = g, !.tickers = f, !.names = n, !.nstatus = st] :
     g \in FixedLists, f \in SeqsUpTo(PlainEntries, 1), n \in FixedNames,
     st \in {"ok", "status"}}

FixedBarResponses ==
  { [status |-> "network", bars |-> <<>>],
    [status |-> "ok", bars |-> <<Bar(2, 3, -1), Bar(4, 5, 0)>>],
    [status |-> "ok", bars |-> <<Bar(1, 2, -2), Bar(2, 3, -1)>>] }

InitTwice ==
  /\ InitRun
  /\ rerun \in FixedData
  /\ rerun.gainers # <<>> => rerun.tickers = <<>>
  /\ rerun.nstatus # "ok" => \A t \in Tickers : rerun.names[t] = "none"

\* the reference endpoint's items for the tickers of a chunk
RECURSIVE FixedItems(_)
FixedItems(chunk) ==
  IF chunk = <<>> THEN <<>>
  ELSE LET t == Head(chunk)
       IN  (IF rerun.names[t] = "named" THEN <<Item(t, <<CompanyName[t]>>)>>
            ELSE IF rerun.names[t] = "unnamed" THEN <<Item(t, <<>>)>>
            ELSE <<>>) \o FixedItems(Tail(chunk))

\* the answer to a chunk request
FixedChunkResponse(chunk) ==
  IF rerun.nstatus = "ok"
    THEN [status |-> "ok", items |-> FixedItems(chunk)]
    ELSE [status |-> rerun.nstatus, items |-> <<>>]

\* get_gainers answers with the fixed gainers list
GainersFixed ==
  /\ pc = "gainers"
  /\ GainersGot([status |-> "ok", tickers |-> rerun.gainers])

\* get_all_tickers_snapshot answers with the fixed all-tickers list
TickersFixed ==
  /\ pc = "tickers"
  /\ TickersGot([status |-> "ok", tickers |-> rerun.tickers])

\* the answer to the aggregate-bar request of task k arrives: in the second
\* run it is the first run's answer for the ticker, its timestamps now
\* rerun.shift minutes further from end_time
BarFixed(k) ==
  /\ pc = "gather"
  /\ k \in DOMAIN tasks /\ tasks[k] = "pending"
  /\ \E resp \in FixedBarResponses :
       LET ticker == candidates[k].ticker
           r == FetchSingle(Since(resp, rerun.shift), lookback_minutes)
       IN  /\ ticker \in DOMAIN bars_src => resp = bars_src[ticker]
           /\ ticker \in DOMAIN rerun.bars => resp = rerun.bars[ticker]
           /\ bars_src' = Put(bars_src, ticker, resp)
           /\ tasks' = [tasks EXCEPT ![k] = "done"]
           /\ failed' = IF resp.status = "ok" THEN failed ELSE failed \cup {"aggs"}
           /\ IF r.raised
                THEN pc' = "error" /\ UNCHANGED results
                ELSE pc' = pc /\ results' = [results EXCEPT ![k] = r.bars]
  /\ UNCHANGED <<mode, fixed, primary, snapshots, candidates, bars_map, name_map,
                 ranked, reports, si, calls, ticker_names, ticker_cache, ncall>>

\* the answer to a chunk request of the run's name batch arrives
NamesFixed ==
  /\ pc = "gather"
  /\ LET resp == FixedChunkResponse(ChunkOf(0))
     IN  /\ BatchStep(0, resp)
         /\ failed' = IF resp.status = "ok" THEN failed ELSE failed \cup {"names"}
  /\ pc' = IF ncall'[0].st = "raised" THEN "error" ELSE pc
  /\ calls' = IF ncall'[0].st = "wait" THEN Append(calls, "names") ELSE calls
  /\ UNCHANGED <<mode, fixed, primary, snapshots, fanVars, reports, si, ticker_cache>>

\* The first run has returned; a second run is set up, with a new client and
\* engine or with the same ones, the clock in the same minute or in the next.
Again ==
  /\ rerun.run = 1 /\ mode = "full" /\ pc = "done"
  /\ \E warm \in BOOLEAN, shift \in {0, 1} :
       /\ rerun' = [rerun EXCEPT !.run = 2, !.first = reports, !.bars = bars_src,
                                  !.warm = warm, !.shift = shift]
       /\ ticker_names' = IF warm THEN ticker_names ELSE EmptyMap
       /\ ticker_cache' = IF warm THEN ticker_cache ELSE EmptyMap
  /\ pc' = "idle"
  /\ mode' = "none"
  /\ primary' = <<>>
  /\ snapshots' = <<>>
  /\ candidates' = <<>>
  /\ tasks' = <<>>
  /\ results' = <<>>
  /\ bars_src' = EmptyMap
  /\ bars_map' = EmptyMap
  /\ name_map' = EmptyMap
  /\ ranked' = <<>>
  /\ reports' = <<>>
  /\ si' = 0
  /\ calls' = <<>>
  /\ failed' = {}
  /\ UNCHANGED <<config, ncall>>

NextTwice ==
  \/ StartFull
  \/ GainersFixed
  \/ TickersFixed
  \/ \E k \in 1..(MaxTopN + Buffer) : BarFixed(k)
  \/ NamesFixed
  \/ GatherDone
  \/ Again

SpecTwice == InitTwice /\ [][NextTwice]_vars

\* ===================================================== claims: the run
FullDone == mode = "full" /\ pc = "done"

\* the number of requests to endpoint e in the log
Count(log, e) == Cardinality({i \in DOMAIN log : log[i] = e})

\* a bar request for ticker t has failed
BarFailed(t) == t \in DOMAIN bars_src /\ bars_src[t].status # "ok"

\* the report of candidate k in the sorted list
RankedOf(k) == {i \in DOMAIN ranked : ranked[i].cand = k}

C2_ErrorOnlyFromSnapshot ==
  /\ pc \in {"idle", "gainers", "tickers", "gather", "s_gainers", "s_name", "done", "error"}
  /\ pc = "error" <=> failed \cap {"gainers", "tickers"} # {}
  /\ pc = "gather" =>
       \/ \E k \in DOMAIN tasks : tasks[k] = "pending"
       \/ ncall[0].op = "batch" /\ ncall[0].st \in {"wait", "done"}

\* a run that returned its list although bar and name requests failed
C2_Witness == FullDone /\ {"aggs", "names"} \subseteq failed /\ reports # <<>>

\* C3: get_top_gainers returns at most top_n reports, in non-increasing order
\* of 10-minute gain.
C3_TopNDescending ==
  FullDone =>
    /\ Len(reports) <= top_n
    /\ \A i, j \in DOMAIN reports :
         i < j => reports[i].gain_10min_percent >= reports[j].gain_10min_percent

\* a run that cut the list to top_n and ranked a later candidate first
C3_Witness ==
  /\ FullDone
  /\ Len(candidates) > top_n
  /\ Len(reports) = top_n
  /\ \E i, j \in DOMAIN reports :
       /\ i < j
       /\ reports[i].gain_10min_percent > reports[j].gain_10min_percent
       /\ reports[i].cand > reports[j].cand

\* the 10-minute gain of candidate k's report
GainOf(k) == ranked[CHOOSE i \in RankedOf(k) : TRUE].gain_10min_percent

\* C4: ties keep the candidates' order: of two returned reports with the same
\* 10-minute gain the earlier candidate comes first, and no candidate left out
\* by the cut to top_n has the gain of a returned report of a later candidate.
C4_TiesKeepCandidateOrder ==
  FullDone =>
    /\ \A i, j \in DOMAIN reports :
         (i < j /\ reports[i].gain_10min_percent = reports[j].gain_10min_percent)
           => reports[i].cand < reports[j].cand
    /\ \A k \in DOMAIN candidates :
         (\A i \in DOMAIN reports : reports[i].cand # k)
           => \A i \in DOMAIN reports :
                reports[i].gain_10min_percent = GainOf(k) => reports[i].cand < k

\* a run whose cut to top_n fell between two candidates of equal gain
C4_Witness ==
  /\ FullDone
  /\ reports # <<>>
  /\ \E k \in DOMAIN candidates :
       /\ \A i \in DOMAIN reports : reports[i].cand # k
       /\ reports[Len(reports)].gain_10min_percent = GainOf(k)
       /\ candidates[k].ticker # reports[Len(reports)].ticker

\* C7: when the gainers snapshot is empty, the all-tickers snapshot is asked
\* for right after it and before the run returns, and the candidates come from
\* its answer.
C7_FallbackBeforeReturn ==
  (mode = "full" /\ primary = << <<>> >>) =>
    /\ pc \in {"tickers", "gather", "done", "error"}
    /\ Len(calls) >= 2 /\ calls[1] = "gainers" /\ calls[2] = "tickers"
    /\ pc = "tickers" => Len(calls) = 2
    /\ pc \in {"gather", "done"} =>
         \A k \in DOMAIN candidates :
           /\ candidates[k].src \in DOMAIN snapshots
           /\ snapshots[candidates[k].src].ticker = candidates[k].ticker

\* a run that returned reports taken from the fallback snapshot
C7_Witness == FullDone /\ primary = << <<>> >> /\ reports # <<>>

\* the snapshot entry a report or candidate comes from
SrcOf(r) == snapshots[r.src]

\* C8: every report of either method has a ticker and a positive current
\* price, the price selected from its snapshot entry; an entry without a
\* ticker or with a selected price <= 0 is the source of no report.
C8_PositivePrice ==
  \A r \in Range(reports) \cup Range(ranked) :
    /\ r.current_price > 0
    /\ r.ticker # ""
    /\ r.src \in DOMAIN snapshots
    /\ SrcOf(r).ticker = r.ticker
    /\ CurrentPrice(SrcOf(r)) = r.current_price

\* a finished run with a report, whose snapshot began with an entry of
\* negative price
C8_Witness ==
  /\ pc = "done"
  /\ reports # <<>>
  /\ CurrentPrice(snapshots[1]) < 0

\* C9: a candidate with fewer than 2 bars is not dropped: every candidate has
\* exactly one report in the sorted list, and with fewer than 2 bars that
\* report's 10-minute gain is 0.
C9_FewBarsFlat ==
  FullDone =>
    /\ Len(ranked) = Len(candidates)
    /\ \A k \in DOMAIN candidates :
         /\ Cardinality(RankedOf(k)) = 1
         /\ Len(BarsOf(bars_map, candidates[k].ticker)) < 2 => GainOf(k) = 0

\* a finished run with a one-bar candidate, a no-bar candidate and a
\* candidate with a gain
C9_Witness ==
  /\ FullDone
  /\ \E j, k \in DOMAIN candidates :
       /\ Len(BarsOf(bars_map, candidates[j].ticker)) = 1
       /\ Len(BarsOf(bars_map, candidates[k].ticker)) = 0

\* C10: no run raises a division error; with a previous close <= 0 the day
\* gain is 0, otherwise it is (current - prev_close) / prev_close * 100 (in a
\* report: that value rounded to hundredths).
C10_DayGainGuarded ==
  /\ "division" \notin failed
  /\ \A k \in DOMAIN candidates :
       LET c == candidates[k]
           prev == Get(SrcOf(c).prevc, 0)
       IN  /\ c.day_gain.den > 0
           /\ prev <= 0 => c.day_gain.num = 0
           /\ prev > 0 =>
                c.day_gain.num * prev = (c.current_price - prev) * 100 * c.day_gain.den
  /\ \A r \in Range(reports) :
       LET prev == Get(SrcOf(r).prevc, 0)
       IN  /\ prev <= 0 => r.gain_day_percent = 0
           /\ prev > 0 =>
                2 * Abs(r.gain_day_percent * prev - 10000 * (r.current_price - prev)) <= prev

\* a finished run reporting an entry with previous close 0 and an entry whose
\* day gain is rounded (33.33%)
C10_Witness ==
  /\ pc = "done"
  /\ \E i, j \in DOMAIN reports :
       /\ SrcOf(reports[i]).prevc = <<0>>
       /\ reports[j].gain_day_percent = 3333

\* C14: the reports returned by one get_top_gainers run carry pairwise
\* different ticker symbols, whatever snapshot the provider returned.
C14_OneReportPerTicker ==
  FullDone =>
    \A i, j \in DOMAIN reports : i # j => reports[i].ticker # reports[j].ticker

\* C16: for every kept candidate whose window has at least 2 bars, the
\* 10-minute gain is 0 when the first bar's open is 0, and otherwise
\* (last.close - first.open) / first.open * 100 rounded to hundredths, first
\* and last being the ends of the window of what the provider returned for the
\* ticker; the candidate's price does not matter: candidates of one ticker get
\* the same gain.
C16_GainFromWindowEnds ==
  FullDone =>
    \A k \in DOMAIN candidates :
      LET bars == BarsOf(bars_map, candidates[k].ticker)
          first == bars[1]
          last == bars[Len(bars)]
      IN  Len(bars) >= 2 =>
            /\ ~BarFailed(candidates[k].ticker)
            /\ bars = Window(bars_src[candidates[k].ticker].bars, lookback_minutes)
            /\ first.open = 0 => GainOf(k) = 0
            /\ first.open > 0 =>
                 2 * Abs(GainOf(k) * first.open - 10000 * (last.close - first.open))
                   <= first.open
            /\ \A j \in DOMAIN candidates :
                 candidates[j].ticker = candidates[k].ticker => GainOf(j) = GainOf(k)

\* a finished run with two candidates of one ticker and different prices,
\* whose window of two bars gives both a gain of 150%
C16_Witness ==
  /\ FullDone
  /\ \E j, l \in DOMAIN candidates :
       /\ candidates[j].ticker = candidates[l].ticker
       /\ candidates[j].current_price # candidates[l].current_price
       /\ Len(BarsOf(bars_map, candidates[j].ticker)) >= 2
       /\ GainOf(j) = 15000

\* a finished run with a candidate whose window of two bars opens at 0
C16_ZeroOpenReached ==
  /\ FullDone
  /\ \E k \in DOMAIN candidates :
       /\ Len(BarsOf(bars_map, candidates[k].ticker)) >= 2
       /\ BarsOf(bars_map, candidates[k].ticker)[1].open = 0

\* entry i of the snapshot is valid: it has a ticker and a positive price
Valid(i) == snapshots[i].ticker # "" /\ CurrentPrice(snapshots[i]) > 0

\* the entries the kept candidates come from
KeptSrc == {candidates[k].src : k \in DOMAIN candidates}

\* C17: in a get_top_gainers run past its snapshot, the kept candidates come
\* from valid entries among the first SnapLimit (100) of the snapshot, one
\* candidate per entry; they are min(top_n + Buffer (10), number of such
\* entries) many and no entry left out has a higher day gain than a kept one;
\* the bar requests are one per kept candidate, so at most
\* min(SnapLimit, top_n + Buffer); the bar tasks and the name batch are about
\* the kept candidates' tickers; and every report is the report of a kept
\* candidate.
C17_LookupsOnlyForKept ==
  (mode = "full" /\ pc \in {"gather", "done"}) =>
    LET first == {i \in DOMAIN snapshots : i <= SnapLimit /\ Valid(i)}
    IN  /\ KeptSrc \subseteq first
        /\ Cardinality(KeptSrc) = Len(candidates)
        /\ Len(candidates) = Min(top_n + Buffer, Cardinality(first))
        /\ \A k \in DOMAIN candidates :
             /\ candidates[k].ticker = snapshots[candidates[k].src].ticker
             /\ \A i \in first \ KeptSrc :
                  ~FracGT(DayGain(CurrentPrice(snapshots[i]), PrevClose(snapshots[i])),
                          candidates[k].day_gain)
        /\ Count(calls, "aggs") = Len(candidates)
        /\ Count(calls, "aggs") <= Min(SnapLimit, top_n + Buffer)
        /\ Len(tasks) = Len(candidates)
        /\ DOMAIN bars_src \subseteq Range(Tickers_(candidates))
        /\ pc = "gather" => ncall[0].tickers = Tickers_(candidates)
        /\ pc = "done" => /\ DOMAIN bars_map = Range(Tickers_(candidates))
                          /\ DOMAIN name_map = Range(Tickers_(candidates))
        /\ \A i \in DOMAIN reports :
             /\ reports[i].cand \in DOMAIN candidates
             /\ reports[i].ticker = candidates[reports[i].cand].ticker
             /\ reports[i].src = candidates[reports[i].cand].src

\* a finished run whose snapshot had a valid entry beyond the first SnapLimit
\* and more valid entries among them than were kept, one ticker being left
\* out altogether
C17_Witness ==
  /\ FullDone
  /\ Len(snapshots) > SnapLimit /\ Valid(Len(snapshots))
  /\ Len(candidates) = top_n + Buffer
  /\ Len(candidates) < Cardinality({i \in 1..SnapLimit : Valid(i)})
  /\ \E i \in 1..SnapLimit : snapshots[i].ticker \notin Range(Tickers_(candidates))
  /\ reports # <<>>

\* C11: the bar fetches and the name resolution run concurrently.  When the
\* run enters asyncio.gather every candidate's bar request and the first
\* name-batch request (when a ticker is uncached) have been issued, before any
\* answer; while it waits, an answer to a bar request issues no request and an
\* answer to a name request touches no bar task; and the run leaves the gather
\* for the gain computation only when every bar task and the name batch have
\* returned.
C11_ConcurrentFanOut ==
  [][/\ (pc # "gather" /\ pc' = "gather") =>
          /\ Len(tasks') = Len(candidates')
          /\ \A k \in DOMAIN tasks' : tasks'[k] = "pending"
          /\ Count(calls', "aggs") = Len(candidates')
          /\ ncall'[0].op = "batch"
          /\ ncall'[0].tickers = Tickers_(candidates')
          /\ ncall'[0].st \in {"wait", "done"}
          /\ ncall'[0].st = "wait" <=> ncall'[0].uncached # <<>>
          /\ ncall'[0].st = "wait" => calls'[Len(calls') - Len(candidates')] = "names"
     /\ (pc = "gather" /\ pc' \in {"gather", "done"}) =>
          /\ Count(calls', "aggs") = Count(calls, "aggs")
          /\ tasks' # tasks => calls' = calls /\ ncall' = ncall
          /\ ncall'[0] # ncall[0] /\ pc' = "gather" => tasks' = tasks
     /\ (pc = "gather" /\ pc' = "done") =>
          /\ \A k \in DOMAIN tasks : tasks[k] = "done"
          /\ ncall[0].st = "done"
          /\ \A k \in DOMAIN candidates : candidates[k].ticker \in DOMAIN name_map'
    ]_vars

\* the run waits in the gather with the second bar task finished before the
\* first, and the name batch at its second chunk request
C11_Witness ==
  /\ pc = "gather"
  /\ Len(tasks) >= 2
  /\ tasks[1] = "pending" /\ tasks[2] = "done"
  /\ ncall[0].st = "wait" /\ ncall[0].i > 0

\* C15: get_top_gainers_simple issues no aggregate-bar request (its requests
\* are the gainers snapshot and single-ticker name lookups, and no bar task or
\* bar map exists), it holds at most top_n reports, all from the first top_n
\* snapshot entries, and each report's 10-minute gain field is the entry's
\* todaysChangePerc (rounded to hundredths) when the entry has it, otherwise
\* the report's own day gain.
C15_SimpleSkipsBars ==
  mode = "simple" =>
    /\ Count(calls, "aggs") = 0
    /\ \A i \in DOMAIN calls : calls[i] \in {"gainers", "details"}
    /\ tasks = <<>> /\ bars_src = EmptyMap /\ bars_map = EmptyMap
    /\ Len(reports) <= top_n
    /\ \A i \in DOMAIN reports :
         LET r == reports[i]
         IN  /\ r.src <= top_n
             /\ SrcOf(r).tcp # <<>> => r.gain_10min_percent = Round2(SrcOf(r).tcp[1])
             /\ SrcOf(r).tcp = <<>> => r.gain_10min_percent = r.gain_day_percent

\* a finished simple run over a snapshot longer than top_n, with a report
\* that took todaysChangePerc (7.33, not the day gain) and one that took the
\* day gain
C15_Witness ==
  /\ mode = "simple" /\ pc = "done"
  /\ Len(snapshots) > top_n
  /\ \E i, j \in DOMAIN reports :
       /\ SrcOf(reports[i]).tcp # <<>>
       /\ reports[i].gain_10min_percent = 733
       /\ reports[i].gain_day_percent = 5000
       /\ SrcOf(reports[j]).tcp = <<>>
       /\ reports[j].gain_10min_percent = 10000

\* ============================================= claims: name resolution
\* C5: get_ticker_details_batch never raises, and its return value has every
\* input ticker as a key; a ticker it found no name for maps to itself.
C5_BatchMapsEveryTicker ==
  \A c \in Callers :
    ncall[c].op = "batch" =>
      /\ ncall[c].st # "raised"
      /\ ncall[c].st = "done" =>
           \A t \in Range(ncall[c].tickers) :
             /\ t \in DOMAIN ncall[c].result
             /\ t \notin ncall[c].got => ncall[c].result[t] = t

\* a batch call of two chunks has returned with one ticker resolved and the
\* other not
C5_Witness ==
  \E c \in 1..NumCallers :
    /\ ncall[c].op = "batch" /\ ncall[c].st = "done"
    /\ Len(ncall[c].uncached) > ChunkSize
    /\ \E t, u \in Range(ncall[c].tickers) :
         /\ t \notin ncall[c].got /\ ncall[c].result[t] = t
         /\ u \in ncall[c].got /\ ncall[c].result[u] = CompanyName[u]

\* a cache holds a resolved company name for t
Resolved(cache, t) == t \in DOMAIN cache /\ cache[t] # t

\* C6: a resolved company name in a name cache (the client's or the
\* engine's) is never replaced by the ticker-symbol fallback.
C6_NameNeverDowngraded ==
  [][\A t \in Tickers :
       /\ Resolved(ticker_names, t) => Resolved(ticker_names', t)
       /\ Resolved(ticker_cache, t) => Resolved(ticker_cache', t)]_vars

\* the second run has returned
SecondDone == rerun.run = 2 /\ mode = "full" /\ pc = "done"

\* C12 as stated: the second of two runs on the same data returns the first
\* run's reports, whatever the order of the answers in either run and whether
\* it runs on a new client or on the first run's client.
C12_SecondRunSameReports ==
  SecondDone => reports = rerun.first

\* C12, amended: when the second run reads the clock in the same minute as
\* the first, so that both have the same end_time, it returns the first run's
\* reports, whatever the order of the answers in either run and whether it
\* runs on a new client or on the first run's client.
C12_SameMinuteSameReports ==
  (SecondDone /\ rerun.shift = 0) => reports = rerun.first

\* a second run in the same minute on the first run's client has returned;
\* the cache held one ticker's resolved name and not the other's, one
\* ticker's bar request failed and the other's bars gave a gain
C12_Witness ==
  /\ SecondDone /\ rerun.shift = 0 /\ rerun.warm
  /\ Len(reports) >= 2
  /\ \E i, j \in DOMAIN reports :
       /\ reports[i].name = CompanyName[reports[i].ticker]
       /\ reports[j].name = reports[j].ticker
       /\ reports[j].ticker \notin DOMAIN ticker_names
       /\ reports[i].gain_10min_percent # 0
       /\ BarFailed(reports[j].ticker)

\* C13: the name cache is consulted first.  When a get_ticker_details_batch
\* call starts, the tickers in the cache are left out of its requests and get
\* their cached name in the result, the others are all requested, and there is
\* no request when none is left; an answer changes neither what the call
\* requests nor the cached tickers' results; a ticker the provider named in an
\* answer is in the cache afterwards, with the value the call returns for it;
\* get_ticker_details does the same for its ticker; and no key ever leaves the
\* cache, so a later call does not request it.
C13_CacheConsultedFirst ==
  [][/\ DOMAIN ticker_names \subseteq DOMAIN ticker_names'
     /\ \A c \in Callers :
          /\ (ncall[c].st = "idle" /\ ncall'[c].op = "batch") =>
               /\ \A t \in Range(ncall'[c].tickers) :
                    IF t \in DOMAIN ticker_names
                      THEN /\ t \notin Range(ncall'[c].uncached)
                           /\ ncall'[c].result[t] = ticker_names[t]
                      ELSE t \in Range(ncall'[c].uncached)
               /\ Range(ncall'[c].uncached) \subseteq Range(ncall'[c].tickers)
               /\ ncall'[c].st = IF ncall'[c].uncached = <<>> THEN "done" ELSE "wait"
          /\ (ncall[c].op = "batch" /\ ncall[c].st = "wait") =>
               /\ ncall'[c].uncached = ncall[c].uncached
               /\ \A t \in Range(ncall[c].tickers) \ Range(ncall[c].uncached) :
                    ncall'[c].result[t] = ncall[c].result[t]
               /\ \A t \in ncall'[c].got \ ncall[c].got :
                    /\ t \in DOMAIN ticker_names'
                    /\ ncall'[c].result[t] = ticker_names'[t]
          /\ (ncall[c].st = "idle" /\ ncall'[c].op = "details") =>
               IF ncall'[c].ticker \in DOMAIN ticker_names
                 THEN /\ ncall'[c].st = "done"
                      /\ ncall'[c].name = ticker_names[ncall'[c].ticker]
                 ELSE ncall'[c].st = "wait"
          /\ (ncall[c].op = "details" /\ ncall[c].st = "wait" /\ ncall'[c].st = "done"
                /\ ncall'[c].name # ncall[c].ticker) =>
               /\ ncall[c].ticker \in DOMAIN ticker_names'
               /\ ticker_names'[ncall[c].ticker] = ncall'[c].name
    ]_vars

\* a batch call waits for an answer about one ticker, having taken the
\* other's resolved name from the cache
C13_Witness ==
  \E c \in 1..NumCallers :
    /\ ncall[c].op = "batch" /\ ncall[c].st = "wait"
    /\ \E t, u \in Range(ncall[c].tickers) :
         /\ t \notin Range(ncall[c].uncached)
         /\ ncall[c].result[t] = CompanyName[t]
         /\ u \in Range(ncall[c].uncached)

\* ========================================= claims: fetch_recent_bars_batch
\* s is t with some elements left out, in the same order
RECURSIVE IsSubSeq(_, _)
IsSubSeq(s, t) ==
  IF s = <<>> THEN TRUE
  ELSE IF t = <<>> THEN FALSE
  ELSE IF Head(s) = Head(t) THEN IsSubSeq(Tail(s), Tail(t))
  ELSE IsSubSeq(s, Tail(t))

\* C18: fetch_recent_bars_batch never raises, and returns a mapping whose keys
\* are the requested tickers.  end_time is the start of the minute before the
\* clock reading.  Each ticker's list has at most `minutes` bars, every one
\* with a timestamp from minutes - 1 minutes before end_time to end_time (so
\* none from the lead-in, none after end_time); it is what a task of that
\* ticker got: empty when the request failed, otherwise bars of the provider's
\* answer in the provider's order, and every bar of the answer inside the
\* window when they are at most `minutes`.
C18_BarsInWindow ==
  \A c \in Callers :
    ncall[c].op = "bars" =>
      LET call == ncall[c]
      IN  /\ call.st # "raised"
          /\ 60 * EndTime(call.now) <= call.now - 60
          /\ call.now - 60 < 60 * EndTime(call.now) + 60
          /\ call.st = "done" =>
               /\ DOMAIN call.result = Range(call.tickers)
               /\ \A t \in Range(call.tickers) :
                    LET bars == call.result[t]
                        InWin(b) == 0 - (call.minutes - 1) <= b.t /\ b.t <= 0
                    IN  /\ Len(bars) <= call.minutes
                        /\ \A i \in DOMAIN bars : InWin(bars[i])
                        /\ Ascending(bars)
                        /\ \E k \in DOMAIN call.tickers :
                             /\ call.tickers[k] = t
                             /\ call.src[k] # <<>>
                             /\ call.src[k][1].status # "ok" => bars = <<>>
                             /\ IsSubSeq(bars, call.src[k][1].bars)
                             /\ Len(SelectSeq(call.src[k][1].bars, InWin)) <= call.minutes
                                  => bars = SelectSeq(call.src[k][1].bars, InWin)

\* a call for two tickers has returned: one request failed, the other
\* answer had a bar in the window and a bar from the lead-in, which was
\* left out
C18_Witness ==
  \E c \in 1..NumCallers :
    /\ ncall[c].op = "bars" /\ ncall[c].st = "done"
    /\ \E j, k \in DOMAIN ncall[c].tickers :
         /\ ncall[c].tickers[j] # ncall[c].tickers[k]
         /\ ncall[c].src[j][1].status # "ok"
         /\ ncall[c].result[ncall[c].tickers[j]] = <<>>
         /\ Len(ncall[c].src[k][1].bars) = 2
         /\ ncall[c].src[k][1].bars[1].t = 0 - ncall[c].minutes
         /\ Len(ncall[c].result[ncall[c].tickers[k]]) = 1

====
